---- MODULE Spec2Model ----
(***************************************************************************)
(* Role resolution of the Auth principal (src/src/Auth.js, the second      *)
(* copy of the file, lines 359-898).                                       *)
(*                                                                         *)
(* Strings.  A permission string "Post-create" is held as the tuple of its *)
(* '-'-separated fields, <<"Post", "create">>, which is what split('-')    *)
(* returns; Str joins the fields back with '-'.  Tokens the code builds    *)
(* with template strings are built here with \o and are real strings.      *)
(*                                                                         *)
(* Promises.  Every getUserRoles call c that starts a resolution owns one  *)
(* promise chain, prom[c].  rolePromise = c means that this.rolePromise    *)
(* holds the promise of call c's _loadRoles / _loadCustomRoles.  A call    *)
(* that is handed an existing rolePromise d records shares[c] = d and      *)
(* observes prom[d].  A step of the model is one synchronous run of        *)
(* JavaScript: the body of getUserRoles up to its first query, or the      *)
(* callbacks that run when one query (or the cache lookup) answers.        *)
(*                                                                         *)
(* The data store is fixed during a behaviour (line 374: "Assuming a users *)
(* roles won't change during a single request").  Query results are        *)
(* returned in ascending id order.                                         *)
(***************************************************************************)
EXTENDS Naturals, Sequences, FiniteSets, TLC

VARIABLES
    isMaster,       \* this.isMaster
    hasUser,        \* this.user is set
    db,             \* the data store: defs, userRoles attribute, _Role graph, memberships, objects
    cache,          \* RoleCache entry of the user: Null or a token list
    userRoles,      \* this.userRoles
    fetchedRoles,   \* this.fetchedRoles
    rolePromise,    \* this.rolePromise: 0 (null) or the call whose promise it holds
    pc,             \* per call: where its resolution waits
    args,           \* per call: className, data, query, restQuery
    loc,            \* per call: the locals its pending callbacks close over
    prom,           \* per call: the state of the promise chain the call created
    shares,         \* per call: 0, or the call whose rolePromise it was handed
    asked,          \* per call: the collections (and the cache) the call has queried
    failed,         \* per call: the query of it that the data store failed, or Null
    seqOf,          \* per call: the call that settled last before it, when nothing was underway
    lastDone,       \* the call whose promise settled most recently (0: none)
    budget          \* number of getUserRoles calls still to come

vars == <<isMaster, hasUser, db, cache, userRoles, fetchedRoles, rolePromise,
          pc, args, loc, prom, shares, asked, failed, seqOf, lastDone, budget>>

-----------------------------------------------------------------------------
(* Bounds *)

MaxCalls == 2
NRoles == 3
MaxEdges == 3
MaxDefs == 2
NPosts == 2

Calls == 1..MaxCalls
RoleIds == 1..NRoles

Null == "null"
UserId == "u1"

-----------------------------------------------------------------------------
(* Sequence helpers *)

RECURSIVE SeqOfSet(_)
SeqOfSet(S) ==
    IF S = {} THEN <<>>
    ELSE LET m == CHOOSE x \in S : \A y \in S : x <= y
         IN <<m>> \o SeqOfSet(S \ {m})

Range(s) == {s[i] : i \in 1..Len(s)}

IndexOf(v, s) ==
    IF \E i \in 1..Len(s) : s[i] = v
    THEN CHOOSE i \in 1..Len(s) : s[i] = v /\ \A j \in 1..(i-1) : s[j] # v
    ELSE 0

\* The first element as an option: what array.find returns for a filtered array.
First(s) == IF Len(s) = 0 THEN <<>> ELSE <<s[1]>>

NoDup(s) == \A i, j \in 1..Len(s) : s[i] = s[j] => i = j

RECURSIVE Str(_)
Str(p) ==
    IF Len(p) = 0 THEN ""
    ELSE IF Len(p) = 1 THEN p[1]
    ELSE p[1] \o "-" \o Str(Tail(p))

None == <<>>
Some(x) == <<x>>

Pending == [st |-> "pending", val |-> <<>>]
Fulfilled(v) == [st |-> "ok", val |-> v]
Rejected(e) == [st |-> "err", val |-> <<e>>]

OPERATION_FORBIDDEN == "OPERATION_FORBIDDEN"
DB_ERROR == "DB_ERROR"

-----------------------------------------------------------------------------
(* Custom role helpers, lines 466-559 *)

extractFirstWord(p) == p[1]

hasStringInArray(str, array) == IndexOf(str, array) > 0

getClassRoles(allCustomRoles, className) ==
    LET Applies(ac) ==
            hasStringInArray(className,
                [i \in 1..Len(ac.permissions) |-> extractFirstWord(ac.permissions[i])])
    IN SelectSeq(allCustomRoles, Applies)

RECURSIVE flattenArray(_)
flattenArray(array) ==
    IF Len(array) = 0 THEN <<>>
    ELSE array[1] \o flattenArray(Tail(array))

Undefined == [undefined |-> TRUE]

removeEmptyValue(array) ==
    LET Kept(a) == a # Undefined
    IN SelectSeq(array, Kept)

\* Variant: every element is kept.
filterDuplicationKeepAll(array) == array

RECURSIVE filterDuplication(_)
filterDuplication(array) ==
    IF Len(array) = 0 THEN <<>>
    ELSE LET front == filterDuplication(SubSeq(array, 1, Len(array) - 1))
             v == array[Len(array)]
         IN IF IndexOf(v, array) = Len(array) THEN Append(front, v) ELSE front

\* Variant: the user id is not appended to the permissions.
customUserRolesNoId(allCustomRoles, uRoles, userId) ==
    IF Len(uRoles) = 0 THEN <<>>
    ELSE LET Mine(ac) == hasStringInArray(ac.role, uRoles)
             matched == SelectSeq(allCustomRoles, Mine)
             rawRoles == [i \in 1..Len(matched) |-> matched[i].permissions]
         IN flattenArray(rawRoles)

customUserRoles(allCustomRoles, uRoles, userId) ==
    IF Len(uRoles) = 0 THEN <<>>
    ELSE LET Mine(ac) == hasStringInArray(ac.role, uRoles)
             matched == SelectSeq(allCustomRoles, Mine)
             rawRoles == [i \in 1..Len(matched) |-> matched[i].permissions]
             roles == flattenArray(rawRoles)
         IN roles \o << <<userId>> >>

roleMap(action) ==
    CASE action = "create" -> "write"
      [] action = "update" -> "write"
      [] action = "read" -> "read"
      [] OTHER -> "undefined"

Field(p, i) == IF Len(p) >= i THEN p[i] ELSE "undefined"

transformUserRoles(roles) ==
    LET T(r) ==
            LET cName == Field(r, 1)
                cRole == Field(r, 2)
            IN IF roleMap(cRole) # "undefined"
               THEN "role:" \o cName \o "-" \o roleMap(cRole)
               ELSE "role:" \o cName
    IN filterDuplication([i \in 1..Len(roles) |-> T(roles[i])])

transfromClassRoles(matched, className, spaceId) ==
    IF Len(matched) = 0 THEN <<>>
    ELSE LET perms == matched[1].permissions
             T(p) ==
                 LET cName == Field(p, 1)
                     permisson == Field(p, 2)
                 IN IF cName = className
                    THEN [role |-> "role:" \o cName \o "-" \o spaceId \o "-" \o roleMap(permisson),
                          isCreate |-> permisson = "create"]
                    ELSE IF cName = "classRoom"
                    THEN [role |-> "role:" \o cName \o "-" \o spaceId \o "-" \o permisson,
                          isCreate |-> FALSE]
                    ELSE Undefined
         IN [i \in 1..Len(perms) |-> T(perms[i])]

FirstRoot(allRoles) ==
    LET IsRoot(ar) == ar.role = "root"
    IN First(SelectSeq(allRoles, IsRoot))

\* Variant: any definition with role "root" is looked at, not the first one.
isNewRoleEnabledAnyRoot(allRoles) ==
    \E i \in 1..Len(allRoles) :
        /\ allRoles[i].role = "root"
        /\ Len(allRoles[i].permissions) >= 1
        /\ allRoles[i].permissions[1] = <<"all">>

isNewRoleEnabled(allRoles) ==
    LET rootRole == FirstRoot(allRoles)
    IN /\ Len(rootRole) = 1
       /\ Len(rootRole[1].permissions) >= 1
       /\ rootRole[1].permissions[1] = <<"all">>

-----------------------------------------------------------------------------
(* Space pointer, lines 567-624 *)

NoPtr == <<>>

\* What getSpacePointer does before it returns: either a value that is already
\* known (now = TRUE; ptr = Null for Promise.resolve()), or the first query of
\* the chase (target = <<restClass, restWhere.objectId>>).
getSpacePointer(className, data, query, restQuery) ==
    IF data.classRoom # Null
    THEN [now |-> TRUE, ptr |-> data.classRoom, target |-> NoPtr]
    ELSE IF restQuery.classRoom # Null
    THEN [now |-> TRUE, ptr |-> restQuery.classRoom, target |-> NoPtr]
    ELSE LET t1 == IF data.post # NoPtr THEN data.post ELSE NoPtr
             t2 == IF data.itemType # Null /\ data.itemId # Null
                   THEN <<data.itemType, data.itemId>> ELSE t1
             t3 == IF query.objectId # Null
                   THEN <<className, query.objectId>> ELSE t2
         IN IF t3 # NoPtr
            THEN [now |-> FALSE, ptr |-> Null, target |-> t3]
            ELSE [now |-> TRUE, ptr |-> Null, target |-> NoPtr]

\* The records _queryByClassName({objectId}, className) returns.
ObjectsAt(target) ==
    {o \in db.objs : o.className = target[1] /\ o.objectId = target[2]}

\* Variant: a record with neither a classRoom nor a post is taken as the
\* space itself, and a missing record as the space named by its id.
queryToSpaceStepSelf(target) ==
    IF ObjectsAt(target) = {}
    THEN [kind |-> "found", ptr |-> target[2], target |-> NoPtr]
    ELSE LET obj == CHOOSE o \in ObjectsAt(target) : TRUE
         IN IF obj.classRoom # Null
            THEN [kind |-> "found", ptr |-> obj.classRoom, target |-> NoPtr]
            ELSE IF obj.post # NoPtr
            THEN [kind |-> "next", ptr |-> Null, target |-> obj.post]
            ELSE [kind |-> "found", ptr |-> obj.objectId, target |-> NoPtr]

\* One answer of _queryToSpace: "found" a classRoom, "next" hop, or "none".
queryToSpaceStep(target) ==
    IF ObjectsAt(target) = {}
    THEN [kind |-> "none", ptr |-> Null, target |-> NoPtr]
    ELSE LET obj == CHOOSE o \in ObjectsAt(target) : TRUE
         IN IF obj.classRoom # Null
            THEN [kind |-> "found", ptr |-> obj.classRoom, target |-> NoPtr]
            ELSE IF obj.post # NoPtr
            THEN [kind |-> "next", ptr |-> Null, target |-> obj.post]
            ELSE [kind |-> "none", ptr |-> Null, target |-> NoPtr]

-----------------------------------------------------------------------------
(* Legacy role graph, lines 763-855 *)

\* The name attribute of a _Role record.
RoleName(id) == IF id <= Len(db.names) THEN db.names[id] ELSE "r" \o ToString(id)

\* _Role records whose users relation holds the user.
DirectRoles == SeqOfSet(db.direct)

\* Variant: the membership edge followed the wrong way.
ParentRolesReversed(ins) ==
    SeqOfSet({b \in RoleIds : \E a \in Range(ins) : <<b, a>> \in db.edges})

\* _Role records whose roles relation holds one of ins: <<a, b>> \in db.edges
\* says that role a is in b.roles (a is a member of b).
ParentRoles(ins) == SeqOfSet({b \in RoleIds : \E a \in Range(ins) : <<a, b>> \in db.edges})

NamesOf(ids) == [i \in 1..Len(ids) |-> RoleName(ids[i])]

\* Variant: nothing is filtered out.
UnqueriedAll(roleIDs, queriedRoles) == roleIDs

\* roleIDs.filter(not yet queried), line 812
Unqueried(roleIDs, queriedRoles) ==
    LET Fresh(id) == id \notin queriedRoles
    IN SelectSeq(roleIDs, Fresh)

\* Variant: the names are returned as collected.
UniqueNamesKeepAll(names) == names

\* [...new Set(names)], lines 826 and 853
UniqueNames(names) == filterDuplication(names)

\* roleNames.map(r => 'role:' + r), line 790
RoleTokens(roleNames) == [i \in 1..Len(roleNames) |-> "role:" \o roleNames[i]]

-----------------------------------------------------------------------------
(* The principal, lines 366-378, and getUserRoles, lines 627-685 *)

static == <<isMaster, hasUser, db>>

EmptyLoc ==
    [uRoles |-> <<>>, space |-> Null, target |-> NoPtr, ins |-> <<>>, names |-> <<>>,
     queried |-> {}, rounds |-> 0, mode |-> "none", path |-> "none"]

\* States in which a call's own resolution still has a callback to run.
Waiting == {"defs", "space", "member", "cache", "direct", "walk"}

Underway(c) == pc[c] \in Waiting

\* Variant: the master key is not looked at.
ShortCircuitNoUser == ~hasUser

\* line 636

ShortCircuit == isMaster \/ ~hasUser

\* Variant: the memoized list is used only while rolePromise is clear.
MemoizedWhenIdle == fetchedRoles /\ rolePromise = 0

\* Variant: the memoized list is never used.
MemoizedNever == FALSE

\* line 640

Memoized == fetchedRoles

\* Variant: every request counts as a create request.
isCreateRequestAlways(data, query) == TRUE

\* line 665
isCreateRequest(data, query) == data.objectId = Null /\ query.objectId = Null

\* The promise a caller of c holds: its own chain, or the rolePromise it was handed.
Result(c) == IF shares[c] # 0 THEN prom[shares[c]] ELSE prom[c]

\* The synchronous part of getUserRoles, lines 627-649.
Call(c, a) ==
    /\ budget > 0
    /\ pc[c] = "idle"
    /\ \A d \in Calls : d < c => pc[d] # "idle"
    /\ budget' = budget - 1
    /\ args' = [args EXCEPT ![c] = a]
    /\ seqOf' = [seqOf EXCEPT ![c] = IF \E d \in Calls : Underway(d) THEN 0 ELSE lastDone]
    /\ IF ShortCircuit
       THEN /\ prom' = [prom EXCEPT ![c] = Fulfilled(<<>>)]
            /\ pc' = [pc EXCEPT ![c] = "done"]
            /\ lastDone' = c
            /\ UNCHANGED <<shares, asked>>
       ELSE IF Memoized
       THEN /\ prom' = [prom EXCEPT ![c] = Fulfilled(userRoles)]
            /\ pc' = [pc EXCEPT ![c] = "done"]
            /\ lastDone' = c
            /\ UNCHANGED <<shares, asked>>
       ELSE IF rolePromise # 0
       THEN /\ shares' = [shares EXCEPT ![c] = rolePromise]
            /\ pc' = [pc EXCEPT ![c] = "done"]
            /\ UNCHANGED <<prom, asked, lastDone>>
       ELSE /\ asked' = [asked EXCEPT ![c] = {"UBRoleDefinition"}]
            /\ pc' = [pc EXCEPT ![c] = "defs"]
            /\ UNCHANGED <<prom, shares, lastDone>>
    /\ UNCHANGED <<static, cache, userRoles, fetchedRoles, rolePromise, loc, failed>>

\* A query made through _queryByClassName (lines 687-693) that the data store
\* fails: the promise built at line 688 has no reject path, so it never
\* settles and no callback of the chain runs.
Hang(c, what) ==
    /\ failed' = [failed EXCEPT ![c] = what]
    /\ pc' = [pc EXCEPT ![c] = "hung"]
    /\ UNCHANGED <<static, cache, userRoles, fetchedRoles, rolePromise, args, loc, prom,
                   shares, asked, seqOf, lastDone, budget>>

\* Variant: a failed query marks the roles as fetched.
RejectAndMark(c, what) ==
    /\ failed' = [failed EXCEPT ![c] = what]
    /\ pc' = [pc EXCEPT ![c] = "done"]
    /\ prom' = [prom EXCEPT ![c] = Rejected(DB_ERROR)]
    /\ lastDone' = c
    /\ fetchedRoles' = TRUE
    /\ UNCHANGED <<static, cache, userRoles, rolePromise, args, loc,
                   shares, asked, seqOf, budget>>

\* A query made with query.execute() directly (lines 771-772, 835-836) that the
\* data store fails: the rejection runs down the chain to the caller.
Reject(c, what) ==
    /\ failed' = [failed EXCEPT ![c] = what]
    /\ pc' = [pc EXCEPT ![c] = "done"]
    /\ prom' = [prom EXCEPT ![c] = Rejected(DB_ERROR)]
    /\ lastDone' = c
    /\ UNCHANGED <<static, cache, userRoles, fetchedRoles, rolePromise, args, loc,
                   shares, asked, seqOf, budget>>

\* The callback of getSpacePointer(...).then, lines 657-682, for call c with
\* locals l.  It sets rolePromise, pc, loc, asked, prom and lastDone.
\* Variant: a permission to update passes the gate as well.
canCreateAnyWrite(rawRoles, className) ==
    \/ hasStringInArray(className \o "-create", [i \in 1..Len(rawRoles) |-> Str(rawRoles[i])])
    \/ hasStringInArray(className \o "-update", [i \in 1..Len(rawRoles) |-> Str(rawRoles[i])])

\* line 671
canCreateGlobal(rawRoles, className) ==
    hasStringInArray(className \o "-create", [i \in 1..Len(rawRoles) |-> Str(rawRoles[i])])

AfterSpace(c, spacePointer, l) ==
    LET a == args[c]
        classRoles == getClassRoles(db.defs, a.className)
        rawRoles == customUserRoles(db.defs, db.uRoles, UserId)
        tUserRoles == transformUserRoles(rawRoles)
        create == isCreateRequest(a.data, a.query)
        canCreate == canCreateGlobal(rawRoles, a.className)
    IN IF Len(classRoles) > 0 /\ spacePointer # Null
       THEN /\ rolePromise' = c
            /\ pc' = [pc EXCEPT ![c] = "member"]
            /\ loc' = [loc EXCEPT ![c] = [l EXCEPT !.uRoles = tUserRoles,
                                                   !.space = spacePointer,
                                                   !.path = "scoped"]]
            /\ asked' = [asked EXCEPT ![c] = @ \cup {"UBClassRoomUser"}]
            /\ UNCHANGED <<prom, lastDone>>
       ELSE IF create /\ ~canCreate
       THEN /\ prom' = [prom EXCEPT ![c] = Rejected(OPERATION_FORBIDDEN)]
            /\ lastDone' = c
            /\ pc' = [pc EXCEPT ![c] = "done"]
            /\ loc' = [loc EXCEPT ![c] = [l EXCEPT !.path = "gate"]]
            /\ UNCHANGED <<rolePromise, asked>>
       ELSE /\ rolePromise' = c
            /\ pc' = [pc EXCEPT ![c] = "cache"]
            /\ loc' = [loc EXCEPT ![c] = [l EXCEPT !.uRoles = tUserRoles,
                                                   !.path = "fallback"]]
            /\ asked' = [asked EXCEPT ![c] = @ \cup {"RoleCache"}]
            /\ UNCHANGED <<prom, lastDone>>

\* The UBRoleDefinition query answers, lines 649-657.
DefsReturn(c, ok) ==
    /\ pc[c] = "defs"
    /\ IF ~ok
       THEN Hang(c, "UBRoleDefinition")
       ELSE /\ IF ~isNewRoleEnabled(db.defs)
               THEN /\ rolePromise' = c
                    /\ pc' = [pc EXCEPT ![c] = "cache"]
                    /\ loc' = [loc EXCEPT ![c] = [@ EXCEPT !.mode = "legacy",
                                                           !.path = "legacy"]]
                    /\ asked' = [asked EXCEPT ![c] = @ \cup {"RoleCache"}]
                    /\ UNCHANGED <<prom, lastDone>>
               ELSE LET a == args[c]
                        sp == getSpacePointer(a.className, a.data, a.query, a.restQuery)
                        l == [loc[c] EXCEPT !.mode = "custom"]
                    IN IF sp.now
                       THEN AfterSpace(c, sp.ptr, l)
                       ELSE /\ pc' = [pc EXCEPT ![c] = "space"]
                            /\ loc' = [loc EXCEPT ![c] = [l EXCEPT !.target = sp.target]]
                            /\ asked' = [asked EXCEPT ![c] = @ \cup {"space"}]
                            /\ UNCHANGED <<rolePromise, prom, lastDone>>
            /\ UNCHANGED <<static, cache, userRoles, fetchedRoles, args, shares, failed,
                           seqOf, budget>>

\* One query of the space pointer chase answers, lines 568-588.
SpaceReturn(c, ok) ==
    /\ pc[c] = "space"
    /\ IF ~ok
       THEN Hang(c, "space")
       ELSE /\ LET step == queryToSpaceStep(loc[c].target)
               IN IF step.kind = "next"
                  THEN /\ loc' = [loc EXCEPT ![c] = [@ EXCEPT !.target = step.target]]
                       /\ UNCHANGED <<pc, asked, rolePromise, prom, lastDone>>
                  ELSE AfterSpace(c, step.ptr, loc[c])
            /\ UNCHANGED <<static, cache, userRoles, fetchedRoles, args, shares, failed,
                           seqOf, budget>>

\* Success of a resolution: the assignments of lines 740-742, 775-779 and
\* 794-797 (putCache says whether the path ends with cacheAdapter.role.put).
Succeed(c, roles, putCache) ==
    /\ userRoles' = roles
    /\ fetchedRoles' = TRUE
    /\ rolePromise' = 0
    /\ cache' = IF putCache THEN Some(roles) ELSE cache
    /\ prom' = [prom EXCEPT ![c] = Fulfilled(roles)]
    /\ pc' = [pc EXCEPT ![c] = "done"]
    /\ lastDone' = c

\* Variant: the records of every user in the space.
MemberQueryAnyUser(spacePointer) ==
    LET InSpace(m) == m.classRoom = spacePointer
    IN SelectSeq(db.members, InSpace)

\* The UBClassRoomUser records matching restWhere, lines 696-705.
MemberQuery(spacePointer) ==
    LET Matches(m) == m.user = UserId /\ m.classRoom = spacePointer
    IN SelectSeq(db.members, Matches)

\* Variant: an empty answer is not treated as "nothing found".
NothingFoundNever(results) == FALSE

\* line 708
NothingFound(results) == Len(results) = 0

\* The UBClassRoomUser query answers, lines 705-750.
MemberReturn(c, ok) ==
    /\ pc[c] = "member"
    /\ IF ~ok
       THEN Hang(c, "UBClassRoomUser")
       ELSE LET a == args[c]
                results == MemberQuery(loc[c].space)
                classRoles == getClassRoles(db.defs, a.className)
                userClassRoles ==
                    [i \in 1..Len(results) |->
                        LET Matches(cr) == cr.role = results[i].role
                            matchedRole == First(SelectSeq(classRoles, Matches))
                        IN transfromClassRoles(matchedRole, a.className, results[i].classRoom)]
                flattenUserClassRoles == removeEmptyValue(flattenArray(userClassRoles))
                canCreate == \E i \in 1..Len(flattenUserClassRoles) :
                                 flattenUserClassRoles[i].isCreate
                cRoles == [i \in 1..Len(flattenUserClassRoles) |-> flattenUserClassRoles[i].role]
                tCRoles == filterDuplication(cRoles)
            IN /\ IF NothingFound(results) \/ (isCreateRequest(a.data, a.query) /\ ~canCreate)
                  THEN /\ prom' = [prom EXCEPT ![c] = Rejected(OPERATION_FORBIDDEN)]
                       /\ pc' = [pc EXCEPT ![c] = "done"]
                       /\ lastDone' = c
                       /\ UNCHANGED <<userRoles, fetchedRoles, rolePromise, cache>>
                  ELSE Succeed(c, tCRoles \o loc[c].uRoles, FALSE)
               /\ UNCHANGED <<static, args, loc, shares, asked, failed, seqOf, budget>>

\* Variant: the cached entry is never used.
CacheHitNever == FALSE

\* line 757
CacheHit == cache # None

\* cacheAdapter.role.get answers, lines 756-772.
CacheReturn(c) ==
    /\ pc[c] = "cache"
    /\ IF CacheHit
       THEN /\ fetchedRoles' = TRUE
            /\ userRoles' = cache[1]
            /\ prom' = [prom EXCEPT ![c] = Fulfilled(cache[1])]
            /\ pc' = [pc EXCEPT ![c] = "done"]
            /\ lastDone' = c
            /\ loc' = [loc EXCEPT ![c] = [@ EXCEPT !.path = "cachehit"]]
            /\ UNCHANGED <<asked>>
       ELSE /\ pc' = [pc EXCEPT ![c] = "direct"]
            /\ asked' = [asked EXCEPT ![c] = @ \cup {"_Role"}]
            /\ UNCHANGED <<fetchedRoles, userRoles, prom, lastDone, loc>>
    /\ UNCHANGED <<static, cache, rolePromise, args, shares, failed, seqOf, budget>>

\* The end of the walk and the callback of lines 789-805.
FinishWalk(c, names, l) ==
    /\ Succeed(c, RoleTokens(UniqueNames(names)) \o l.uRoles, TRUE)
    /\ loc' = [loc EXCEPT ![c] = [l EXCEPT !.names = names, !.ins = <<>>]]
    /\ UNCHANGED asked

\* _getAllRolesNamesForRoleIds up to its query, lines 811-836, for call c with
\* locals l.  It sets what Succeed sets, and loc and asked.
WalkRound(c, roleIDs, names, l) ==
    LET ins == Unqueried(roleIDs, l.queried)
        queriedRoles == l.queried \cup Range(ins)
    IN IF Len(ins) = 0
       THEN FinishWalk(c, names, l)
       ELSE /\ loc' = [loc EXCEPT ![c] = [l EXCEPT !.ins = ins, !.names = names,
                                                   !.queried = queriedRoles,
                                                   !.rounds = @ + 1]]
            /\ pc' = [pc EXCEPT ![c] = "walk"]
            /\ asked' = [asked EXCEPT ![c] = @ \cup {"_Role"}]
            /\ UNCHANGED <<userRoles, fetchedRoles, rolePromise, cache, prom, lastDone>>

\* The query for the roles the user is directly in answers, lines 772-789.
DirectReturn(c, ok) ==
    /\ pc[c] = "direct"
    /\ IF ~ok
       THEN Reject(c, "_Role")
       ELSE /\ IF Len(DirectRoles) = 0
               THEN /\ Succeed(c, <<>>, TRUE)
                    /\ loc' = [loc EXCEPT ![c] = [@ EXCEPT !.path =
                                   IF @ = "fallback" THEN "fallback" ELSE "legacy"]]
                    /\ UNCHANGED asked
               ELSE WalkRound(c, DirectRoles, NamesOf(DirectRoles), loc[c])
            /\ UNCHANGED <<static, args, shares, failed, seqOf, budget>>

\* One parent-role query answers, lines 836-854.
WalkReturn(c, ok) ==
    /\ pc[c] = "walk"
    /\ IF ~ok
       THEN Reject(c, "_Role")
       ELSE /\ LET results == ParentRoles(loc[c].ins)
               IN IF Len(results) = 0
                  THEN FinishWalk(c, loc[c].names, loc[c])
                  ELSE WalkRound(c, results, loc[c].names \o NamesOf(results), loc[c])
            /\ UNCHANGED <<static, args, shares, failed, seqOf, budget>>

-----------------------------------------------------------------------------
(* Inputs *)

NoData == [objectId |-> Null, classRoom |-> Null, post |-> NoPtr,
           itemType |-> Null, itemId |-> Null]
NoQuery == [objectId |-> Null]
NoRest == [classRoom |-> Null]

ArgSet ==
    { [className |-> "Post", data |-> [NoData EXCEPT !.classRoom = "s1"],
       query |-> NoQuery, restQuery |-> NoRest],
      [className |-> "Post", data |-> NoData,
       query |-> [objectId |-> "p1"], restQuery |-> NoRest],
      [className |-> "Comment", data |-> [NoData EXCEPT !.objectId = "c1"],
       query |-> NoQuery, restQuery |-> NoRest],
      [className |-> "Comment", data |-> NoData,
       query |-> NoQuery, restQuery |-> NoRest] }

LegacyDefs ==
    << [role |-> "student", permissions |-> << <<"Post", "read">> >>] >>

CustomDefs ==
    << [role |-> "root", permissions |-> << <<"all">> >>],
       [role |-> "student", permissions |-> << <<"Post", "read">> >>],
       [role |-> "instructor",
        permissions |-> << <<"Post", "create">>, <<"Post", "update">>,
                           <<"Post", "read">>, <<"Comment", "create">> >>] >>

Objects ==
    { [className |-> "Post", objectId |-> "p1", classRoom |-> Null, post |-> <<"Post", "p2">>],
      [className |-> "Post", objectId |-> "p2", classRoom |-> "s1", post |-> NoPtr] }

Memberships ==
    { <<>>,
      << [user |-> UserId, classRoom |-> "s1", role |-> "student"],
         [user |-> UserId, classRoom |-> "s1", role |-> "instructor"] >> }

Graphs ==
    { [direct |-> {}, edges |-> {}],
      [direct |-> {1}, edges |-> {<<1, 2>>, <<2, 1>>}] }

World(d, u, g, m) ==
    [defs |-> d, uRoles |-> u, direct |-> g.direct, edges |-> g.edges,
     names |-> <<>>, members |-> m, objs |-> Objects]

\* Legacy mode reads neither the userRoles attribute nor the memberships.
LegacyWorlds == { World(LegacyDefs, <<>>, g, <<>>) : g \in Graphs }

CustomWorlds ==
    { World(CustomDefs, u, g, m) :
        u \in {<<>>, <<"instructor">>}, g \in Graphs, m \in Memberships }

Caches == {None, Some(<<"role:old">>)}

InitPrincipal ==
    /\ userRoles = <<>>
    /\ fetchedRoles = FALSE
    /\ rolePromise = 0
    /\ pc = [c \in Calls |-> "idle"]
    /\ args = [c \in Calls |-> CHOOSE a \in ArgSet : TRUE]
    /\ loc = [c \in Calls |-> EmptyLoc]
    /\ prom = [c \in Calls |-> Pending]
    /\ shares = [c \in Calls |-> 0]
    /\ asked = [c \in Calls |-> {}]
    /\ failed = [c \in Calls |-> Null]
    /\ seqOf = [c \in Calls |-> 0]
    /\ lastDone = 0

\* A principal with the master key or without a user never reads the store.
Init ==
    /\ \/ /\ isMaster = FALSE
          /\ hasUser = TRUE
          /\ db \in LegacyWorlds \cup CustomWorlds
          /\ cache \in Caches
       \/ /\ \E k \in {<<TRUE, TRUE>>, <<TRUE, FALSE>>, <<FALSE, FALSE>>} :
                 isMaster = k[1] /\ hasUser = k[2]
          /\ db \in LegacyWorlds
          /\ cache = None
    /\ budget = MaxCalls
    /\ InitPrincipal

Next ==
    \/ \E c \in Calls, a \in ArgSet : Call(c, a)
    \/ \E c \in Calls, ok \in BOOLEAN : DefsReturn(c, ok)
    \/ \E c \in Calls, ok \in BOOLEAN : SpaceReturn(c, ok)
    \/ \E c \in Calls, ok \in BOOLEAN : MemberReturn(c, ok)
    \/ \E c \in Calls : CacheReturn(c)
    \/ \E c \in Calls, ok \in BOOLEAN : DirectReturn(c, ok)
    \/ \E c \in Calls, ok \in BOOLEAN : WalkReturn(c, ok)

Spec == Init /\ [][Next]_vars

-----------------------------------------------------------------------------
(* The legacy graph walk over every stored role graph of at most MaxEdges    *)
(* membership edges between NRoles roles, for one call of one principal.     *)

EdgeSets == {E \in SUBSET (RoleIds \X RoleIds) : Cardinality(E) <= MaxEdges}

WalkWorlds ==
    { World(LegacyDefs, <<>>, [direct |-> D, edges |-> E], <<>>) :
        D \in SUBSET RoleIds, E \in EdgeSets }

WalkArg == [className |-> "Post", data |-> NoData, query |-> NoQuery, restQuery |-> NoRest]

InitWalk ==
    /\ isMaster = FALSE
    /\ hasUser = TRUE
    /\ db \in WalkWorlds
    /\ cache = None
    /\ budget = 1
    /\ InitPrincipal

NextWalk ==
    \/ \E c \in Calls : Call(c, WalkArg)
    \/ \E c \in Calls, ok \in BOOLEAN : DefsReturn(c, ok)
    \/ \E c \in Calls : CacheReturn(c)
    \/ \E c \in Calls, ok \in BOOLEAN : DirectReturn(c, ok)
    \/ \E c \in Calls, ok \in BOOLEAN : WalkReturn(c, ok)

\* Every query that was sent is answered (or failed) by the data store.
SpecWalk == InitWalk /\ [][NextWalk]_vars /\ WF_vars(NextWalk)

-----------------------------------------------------------------------------
(* Mode selection over every list of at most MaxDefs definitions.            *)

DefUniverse ==
    { [role |-> "root", permissions |-> << <<"all">> >>],
      [role |-> "root", permissions |-> << <<"all">>, <<"Post", "read">> >>],
      [role |-> "root", permissions |-> << <<"Post", "read">> >>],
      [role |-> "root", permissions |-> <<>>],
      [role |-> "student", permissions |-> << <<"Post", "read">> >>],
      [role |-> "student", permissions |-> << <<"all">> >>] }

DefLists == UNION { [1..n -> DefUniverse] : n \in 0..MaxDefs }

ModeArg == [className |-> "Comment", data |-> [NoData EXCEPT !.objectId = "c1"],
            query |-> NoQuery, restQuery |-> NoRest]

InitMode ==
    /\ isMaster = FALSE
    /\ hasUser = TRUE
    /\ db \in { World(d, <<>>, [direct |-> {}, edges |-> {}], <<>>) : d \in DefLists }
    /\ cache = None
    /\ budget = 1
    /\ InitPrincipal

NextMode ==
    \/ \E c \in Calls : Call(c, ModeArg)
    \/ \E c \in Calls, ok \in BOOLEAN : DefsReturn(c, ok)
    \/ \E c \in Calls : CacheReturn(c)
    \/ \E c \in Calls, ok \in BOOLEAN : DirectReturn(c, ok)

SpecMode == InitMode /\ [][NextMode]_vars

-----------------------------------------------------------------------------
(* The space pointer over every combination of the five sources, in custom   *)
(* mode, for one call.  Each chase root is stored with its own classRoom.    *)

PtrObjects ==
    { [className |-> "Post", objectId |-> "p1", classRoom |-> "sp", post |-> NoPtr],
      [className |-> "Item", objectId |-> "i1", classRoom |-> "si", post |-> NoPtr],
      [className |-> "Post", objectId |-> "q1", classRoom |-> "sq", post |-> NoPtr] }

PtrArgs ==
    { [className |-> "Post",
       data |-> [objectId |-> Null, classRoom |-> dc, post |-> dp,
                 itemType |-> it[1], itemId |-> it[2]],
       query |-> [objectId |-> q],
       restQuery |-> [classRoom |-> rc]] :
        dc \in {Null, "sd"}, rc \in {Null, "sr"}, dp \in {NoPtr, <<"Post", "p1">>},
        it \in {<<Null, Null>>, <<"Item", "i1">>}, q \in {Null, "q1"} }

InitPtr ==
    /\ isMaster = FALSE
    /\ hasUser = TRUE
    /\ db = [World(CustomDefs, <<"instructor">>, [direct |-> {}, edges |-> {}],
                   << [user |-> UserId, classRoom |-> "sq", role |-> "student"] >>)
             EXCEPT !.objs = PtrObjects]
    /\ cache = None
    /\ budget = 1
    /\ InitPrincipal

NextPtr ==
    \/ \E c \in Calls, a \in PtrArgs : Call(c, a)
    \/ \E c \in Calls, ok \in BOOLEAN : DefsReturn(c, ok)
    \/ \E c \in Calls, ok \in BOOLEAN : SpaceReturn(c, ok)
    \/ \E c \in Calls, ok \in BOOLEAN : MemberReturn(c, ok)
    \/ \E c \in Calls : CacheReturn(c)
    \/ \E c \in Calls, ok \in BOOLEAN : DirectReturn(c, ok)

SpecPtr == InitPtr /\ [][NextPtr]_vars

-----------------------------------------------------------------------------
(* Custom mode over every list of at most MaxDefs definitions after the      *)
(* root definition, for one call: scoped path, create gates and fallback.    *)

RootAll == [role |-> "root", permissions |-> << <<"all">> >>]

CustomUniverse ==
    { [role |-> "student", permissions |-> << <<"Post", "read">> >>],
      [role |-> "instructor", permissions |-> << <<"Post", "create">>, <<"Post", "update">> >>],
      [role |-> "helper", permissions |-> << <<"Post", "read">>, <<"classRoom", "read">> >>],
      [role |-> "editor", permissions |-> << <<"Comment", "update">> >>],
      [role |-> "author", permissions |-> << <<"Comment", "create">> >>] }

CustomDefLists ==
    { <<RootAll>> \o l : l \in UNION { [1..n -> CustomUniverse] : n \in 0..MaxDefs } }

\* The userRoles attribute of the user.
CustomUsers == { <<>>, <<"editor">>, <<"instructor", "author">> }

\* The id of a user other than the principal's.
OtherUser == "u2"

CustomMemberships ==
    { <<>>,
      << [user |-> UserId, classRoom |-> "s1", role |-> "student"] >>,
      << [user |-> UserId, classRoom |-> "s1", role |-> "instructor"] >>,
      << [user |-> UserId, classRoom |-> "s1", role |-> "helper"],
         [user |-> UserId, classRoom |-> "s1", role |-> "instructor"] >>,
      << [user |-> UserId, classRoom |-> "s2", role |-> "instructor"] >>,
      << [user |-> OtherUser, classRoom |-> "s1", role |-> "instructor"] >>,
      << [user |-> OtherUser, classRoom |-> "s1", role |-> "instructor"],
         [user |-> UserId, classRoom |-> "s1", role |-> "student"] >> }

\* No _Role record, or one named "Post-write" that has the user and a parent.
CustomRoleStores ==
    { [direct |-> {}, edges |-> {}, names |-> <<>>],
      [direct |-> {1}, edges |-> {<<1, 2>>}, names |-> <<"Post-write">>] }

CustomArgs ==
    { [className |-> cn,
       data |-> [NoData EXCEPT !.classRoom = dc, !.objectId = oid],
       query |-> NoQuery, restQuery |-> NoRest] :
        cn \in {"Post", "Comment"}, dc \in {Null, "s1"}, oid \in {Null, "o1"} }

InitCustom ==
    /\ isMaster = FALSE
    /\ hasUser = TRUE
    /\ db \in { [World(d, u, g, m) EXCEPT !.names = g.names] :
                  d \in CustomDefLists, u \in CustomUsers,
                  g \in CustomRoleStores, m \in CustomMemberships }
    /\ cache \in Caches
    /\ budget = 1
    /\ InitPrincipal

NextCustom ==
    \/ \E c \in Calls, a \in CustomArgs : Call(c, a)
    \/ \E c \in Calls, ok \in BOOLEAN : DefsReturn(c, ok)
    \/ \E c \in Calls, ok \in BOOLEAN : MemberReturn(c, ok)
    \/ \E c \in Calls : CacheReturn(c)
    \/ \E c \in Calls, ok \in BOOLEAN : DirectReturn(c, ok)
    \/ \E c \in Calls, ok \in BOOLEAN : WalkReturn(c, ok)

SpecCustom == InitCustom /\ [][NextCustom]_vars

-----------------------------------------------------------------------------
(* The chase of _queryToSpace over every store of at most NPosts Post        *)
(* records, each with or without a classRoom and a parent post (stored or    *)
(* not), for one call in custom mode.                                        *)

PostIds == {"p" \o ToString(i) : i \in 1..NPosts}

\* The objectId of a Post that is not stored.
Dangling == "px"

PostShapes ==
    [classRoom : {Null, "s1"},
     post : {NoPtr} \cup {<<"Post", q>> : q \in PostIds \cup {Dangling}}]

ChaseStores ==
    { { [className |-> "Post", objectId |-> i,
         classRoom |-> f[i].classRoom, post |-> f[i].post] : i \in S } :
        S \in SUBSET PostIds, f \in [PostIds -> PostShapes] }

ChaseArgs ==
    { [className |-> "Post", data |-> NoData,
       query |-> [objectId |-> "p1"], restQuery |-> NoRest],
      [className |-> "Post", data |-> [NoData EXCEPT !.post = <<"Post", "p1">>],
       query |-> NoQuery, restQuery |-> NoRest] }

InitChase ==
    /\ isMaster = FALSE
    /\ hasUser = TRUE
    /\ db \in { [World(CustomDefs, u, [direct |-> {}, edges |-> {}],
                       << [user |-> UserId, classRoom |-> "s1", role |-> "instructor"] >>)
                 EXCEPT !.objs = st] :
                  u \in {<<>>, <<"instructor">>}, st \in ChaseStores }
    /\ cache = None
    /\ budget = 1
    /\ InitPrincipal

NextChase ==
    \/ \E c \in Calls, a \in ChaseArgs : Call(c, a)
    \/ \E c \in Calls, ok \in BOOLEAN : DefsReturn(c, ok)
    \/ \E c \in Calls, ok \in BOOLEAN : SpaceReturn(c, ok)
    \/ \E c \in Calls, ok \in BOOLEAN : MemberReturn(c, ok)
    \/ \E c \in Calls : CacheReturn(c)
    \/ \E c \in Calls, ok \in BOOLEAN : DirectReturn(c, ok)

\* Every query that was sent is answered (or failed) by the data store.
SpecChase == InitChase /\ [][NextChase]_vars /\ WF_vars(NextChase)

-----------------------------------------------------------------------------
(* Claims *)

\* C1: a call on a principal with the master key, or without a user, returns
\* the empty list whatever its arguments, and queries nothing.
C1_MasterResolvesEmpty ==
    \A c \in Calls :
        (pc[c] # "idle" /\ (isMaster \/ ~hasUser)) =>
            /\ pc[c] = "done"
            /\ Result(c) = Fulfilled(<<>>)
            /\ asked[c] = {}

C1_Witness ==
    \E c, d \in Calls :
        /\ isMaster /\ hasUser
        /\ c # d /\ pc[c] = "done" /\ pc[d] = "done"
        /\ args[c] # args[d]
        /\ Result(c) = Fulfilled(<<>>) /\ Result(d) = Fulfilled(<<>>)

\* C2 (as claimed): at no time are two resolutions of the same principal
\* underway, however the calls interleave.
C2_SingleResolution ==
    \A c, d \in Calls : (Underway(c) /\ Underway(d)) => c = d

\* C3: a call made when nothing is underway, after a call with the same
\* arguments has returned a token list, returns that same list and does no
\* I/O of its own.
C3_Memoization ==
    \A c \in Calls :
        (/\ pc[c] # "idle"
         /\ seqOf[c] # 0
         /\ prom[seqOf[c]].st = "ok"
         /\ args[seqOf[c]] = args[c]) =>
            /\ pc[c] = "done"
            /\ Result(c) = prom[seqOf[c]]
            /\ asked[c] = {}

C3_Witness ==
    \E c \in Calls :
        /\ ~isMaster /\ hasUser
        /\ pc[c] = "done"
        /\ seqOf[c] # 0
        /\ args[seqOf[c]] = args[c]
        /\ asked[seqOf[c]] # {}
        /\ prom[seqOf[c]].st = "ok"
        /\ prom[seqOf[c]].val # <<>>
        /\ Result(c) = prom[seqOf[c]]

\* C4 (as claimed): once fetchedRoles is true, userRoles never changes.
C4_ResolvedIsFinal == [][fetchedRoles => userRoles' = userRoles]_vars

\* C5 (as claimed): a resolution that failed does not stay in rolePromise, so
\* the next call starts afresh.
C5_FailureClearsRolePromise ==
    \A c \in Calls : prom[c].st = "err" => rolePromise # c

\* C6 (as claimed): a call whose query the data store failed has its promise
\* rejected with that failure.
C6_StoreFailureRejects ==
    \A c \in Calls : failed[c] # Null => prom[c] = Rejected(DB_ERROR)

\* C7 (as claimed): the step in which a resolution succeeds leaves
\* fetchedRoles true, userRoles and the cache entry equal to the returned
\* list, and rolePromise null.
C7_SuccessState ==
    [][\A c \in Calls :
          (Underway(c) /\ prom'[c].st = "ok") =>
              /\ fetchedRoles'
              /\ userRoles' = prom'[c].val
              /\ cache' = Some(prom'[c].val)
              /\ rolePromise' = 0]_vars

\* C8 (as claimed): custom mode is chosen exactly when some definition has
\* role "root" and permissions equal to ["all"].
HasRootAll(defs) ==
    \E i \in 1..Len(defs) :
        defs[i].role = "root" /\ defs[i].permissions = << <<"all">> >>

C8_ModeIffRootAll ==
    \A c \in Calls :
        loc[c].mode # "none" => (loc[c].mode = "custom" <=> HasRootAll(db.defs))

\* C8 (amended): custom mode is chosen exactly when the first definition with
\* role "root" has "all" as the first entry of its permissions.
FirstRootStartsWithAll(defs) ==
    \E i \in 1..Len(defs) :
        /\ defs[i].role = "root"
        /\ \A j \in 1..(i - 1) : defs[j].role # "root"
        /\ Len(defs[i].permissions) >= 1
        /\ Str(defs[i].permissions[1]) = "all"

C8_ModeIffFirstRootAll ==
    \A c \in Calls :
        loc[c].mode # "none" =>
            (loc[c].mode = "custom" <=> FirstRootStartsWithAll(db.defs))

C8_Witness ==
    \E c \in Calls :
        /\ loc[c].mode = "custom"
        /\ ~HasRootAll(db.defs)
        /\ Len(db.defs) >= 2

\* The roles the user belongs to: the least set that holds the roles listing
\* the user and, with a role, every role it is a member of.
RECURSIVE MemberClosure(_)
MemberClosure(S) ==
    LET T == S \cup {b \in RoleIds : \E a \in S : <<a, b>> \in db.edges}
    IN IF T = S THEN S ELSE MemberClosure(T)

\* Role a is a member of itself through one or more membership edges.
OnCycle(a) == a \in MemberClosure({b \in RoleIds : <<a, b>> \in db.edges})

Occurrences(v, s) == Cardinality({i \in 1..Len(s) : s[i] = v})

\* C9: a walk that has started ends, whatever the role graph (cycles
\* included), and a list it returns holds the name of each role reached
\* exactly once.
C9_WalkTerminatesDupFree ==
    \A c \in Calls :
        (pc[c] \in {"direct", "walk"}) ~>
            (/\ pc[c] = "done"
             /\ prom[c].st # "pending"
             /\ prom[c].st = "ok" =>
                    /\ NoDup(prom[c].val)
                    /\ \A r \in MemberClosure(db.direct) :
                           Occurrences("role:" \o RoleName(r), prom[c].val) = 1)

C9_Witness ==
    \E c \in Calls :
        /\ \E a \in MemberClosure(db.direct) : OnCycle(a)
        /\ pc[c] = "done"
        /\ prom[c].st = "ok"
        /\ loc[c].rounds >= 2
        /\ Len(loc[c].names) > Len(prom[c].val)

\* C10: in legacy mode with no cache entry, the list returned holds exactly
\* the tokens "role:" + name of the roles in the closure of the membership
\* relation from the roles that list the user.
C10_LegacyIsClosure ==
    \A c \in Calls :
        (/\ loc[c].mode = "legacy"
         /\ loc[c].path # "cachehit"
         /\ pc[c] = "done"
         /\ prom[c].st = "ok") =>
            Range(prom[c].val) = {"role:" \o RoleName(r) : r \in MemberClosure(db.direct)}

C10_Witness ==
    \E c \in Calls :
        /\ loc[c].mode = "legacy"
        /\ loc[c].path # "cachehit"
        /\ pc[c] = "done"
        /\ prom[c].st = "ok"
        /\ Cardinality(MemberClosure(db.direct)) = NRoles
        /\ Cardinality(db.direct) = 1

\* The classRoom stored with the record a chase root points at.
SpaceAt(t) ==
    IF t = NoPtr \/ ObjectsAt(t) = {} THEN Null
    ELSE (CHOOSE o \in ObjectsAt(t) : TRUE).classRoom

HasItem(a) == a.data.itemType # Null /\ a.data.itemId # Null

\* The space a call is resolved against when the chase starts at root.
SpaceFrom(a, root) ==
    IF a.data.classRoom # Null THEN a.data.classRoom
    ELSE IF a.restQuery.classRoom # Null THEN a.restQuery.classRoom
    ELSE SpaceAt(root)

FirstMatchRoot(a) ==
    IF a.data.post # NoPtr THEN a.data.post
    ELSE IF HasItem(a) THEN <<a.data.itemType, a.data.itemId>>
    ELSE IF a.query.objectId # Null THEN <<a.className, a.query.objectId>>
    ELSE NoPtr

LastMatchRoot(a) ==
    IF a.query.objectId # Null THEN <<a.className, a.query.objectId>>
    ELSE IF HasItem(a) THEN <<a.data.itemType, a.data.itemId>>
    ELSE IF a.data.post # NoPtr THEN a.data.post
    ELSE NoPtr

SpaceDecided(c) == loc[c].mode = "custom" /\ loc[c].path # "none"

\* C11 (as claimed): the space is taken from data.classRoom, else
\* restQuery.classRoom, else from the chase rooted at the first present of
\* data.post, (itemType, itemId), query.objectId.
C11_FirstMatchWins ==
    \A c \in Calls :
        SpaceDecided(c) => loc[c].space = SpaceFrom(args[c], FirstMatchRoot(args[c]))

\* C11 (amended): data.classRoom, else restQuery.classRoom, else the chase
\* rooted at the last present of data.post, (itemType, itemId),
\* query.objectId: query.objectId wins over the pair, the pair over data.post.
C11_LastChaseRootWins ==
    \A c \in Calls :
        SpaceDecided(c) => loc[c].space = SpaceFrom(args[c], LastMatchRoot(args[c]))

C11_Witness ==
    \E c \in Calls :
        /\ SpaceDecided(c)
        /\ args[c].data.classRoom = Null /\ args[c].restQuery.classRoom = Null
        /\ args[c].data.post # NoPtr /\ args[c].query.objectId # Null
        /\ loc[c].space = "sq"
        /\ "space" \in asked[c]

\* The membership records of the user in the space of call c.
MembersIn(c) ==
    {m \in Range(db.members) : m.user = UserId /\ m.classRoom = loc[c].space}

ReadWrite(action) == IF action \in {"create", "update"} THEN "write" ELSE "read"

\* Tokens of the permissions <className>-<action> of the definitions named by
\* the membership records.
ClassTokens(c) ==
    UNION { UNION { { "role:" \o p[1] \o "-" \o m.classRoom \o "-" \o ReadWrite(p[2]) :
                        p \in {q \in Range(d.permissions) :
                                 Len(q) = 2 /\ q[1] = args[c].className} } :
                    d \in {e \in Range(db.defs) : e.role = m.role} } :
            m \in MembersIn(c) }

\* Tokens of the permissions classRoom-<action> of those definitions that
\* also hold a permission of the class.
SpaceClassTokens(c) ==
    UNION { UNION { { "role:classRoom-" \o m.classRoom \o "-" \o p[2] :
                        p \in {q \in Range(d.permissions) :
                                 Len(q) = 2 /\ q[1] = "classRoom"} } :
                    d \in {e \in Range(db.defs) :
                             /\ e.role = m.role
                             /\ \E q \in Range(e.permissions) : q[1] = args[c].className} } :
            m \in MembersIn(c) }

ScopedDone(c) == loc[c].path = "scoped" /\ pc[c] = "done" /\ prom[c].st = "ok"

\* The returned list without the global tokens it ends with.
ScopedPart(c) == SubSeq(prom[c].val, 1, Len(prom[c].val) - Len(loc[c].uRoles))

\* C12 (as claimed): the scoped tokens of a successful scoped resolution are
\* exactly the tokens of the <className>-<action> permissions, each once.
C12_ScopedTokensExact ==
    \A c \in Calls :
        ScopedDone(c) =>
            /\ Range(ScopedPart(c)) = ClassTokens(c)
            /\ NoDup(ScopedPart(c))

\* C12 (amended): they are those tokens and, for a class other than classRoom,
\* the tokens role:classRoom-<spaceId>-<action> of the classRoom-<action>
\* permissions of the same definitions, each once.
C12_ScopedTokensWithSpaceClass ==
    \A c \in Calls :
        ScopedDone(c) =>
            /\ Range(ScopedPart(c)) = ClassTokens(c) \cup SpaceClassTokens(c)
            /\ NoDup(ScopedPart(c))

C12_Witness ==
    \E c \in Calls :
        /\ ScopedDone(c)
        /\ args[c].className = "Post"
        /\ \E i \in 1..Len(db.defs) : db.defs[i].role = "helper"
        /\ \E i \in 1..Len(db.defs) : db.defs[i].role = "instructor"
        /\ ScopedPart(c) = <<"role:Post-s1-read", "role:classRoom-s1-read", "role:Post-s1-write">>

IsCreate(c) == args[c].data.objectId = Null /\ args[c].query.objectId = Null

\* Some membership record of the space names a definition that holds the
\* permission <className>-create.
HasCreateToken(c) ==
    \E m \in MembersIn(c), d \in Range(db.defs) :
        d.role = m.role /\ <<args[c].className, "create">> \in Range(d.permissions)

ScopedSettled(c) == loc[c].path = "scoped" /\ pc[c] = "done"

\* C13: in the scoped path a create request without a create-derived token
\* is rejected with OPERATION_FORBIDDEN; a request that carries an object id
\* is not gated and, the user having a membership record, succeeds (as does
\* a create request with a create-derived token).
C13_ScopedCreateGate ==
    \A c \in Calls :
        ScopedSettled(c) =>
            /\ (IsCreate(c) /\ ~HasCreateToken(c)) => prom[c] = Rejected(OPERATION_FORBIDDEN)
            /\ (~IsCreate(c) /\ MembersIn(c) # {}) => prom[c].st = "ok"
            /\ (IsCreate(c) /\ HasCreateToken(c)) => prom[c].st = "ok"

C13_Witness ==
    \E c \in Calls :
        /\ ScopedSettled(c)
        /\ IsCreate(c) /\ ~HasCreateToken(c)
        /\ MembersIn(c) # {}
        /\ ClassTokens(c) # {}
        /\ prom[c] = Rejected(OPERATION_FORBIDDEN)

\* C14: in the scoped path a user without a membership record in the space
\* is rejected with OPERATION_FORBIDDEN, whatever the class, the global
\* tokens and the kind of request; nothing is returned or memoized.
C14_NoMembershipForbidden ==
    \A c \in Calls :
        (ScopedSettled(c) /\ MembersIn(c) = {}) =>
            /\ prom[c] = Rejected(OPERATION_FORBIDDEN)
            /\ ~fetchedRoles
            /\ userRoles = <<>>
            /\ cache \in Caches

C14_Witness ==
    \E c \in Calls :
        /\ ScopedSettled(c) /\ MembersIn(c) = {}
        /\ ~IsCreate(c)
        /\ loc[c].uRoles # <<>>
        /\ db.members # <<>>
        /\ prom[c] = Rejected(OPERATION_FORBIDDEN)

\* A successful custom-mode resolution that did not take the scoped path.
FallbackDone(c) ==
    /\ loc[c].mode = "custom"
    /\ loc[c].path \in {"fallback", "cachehit"}
    /\ pc[c] = "done" /\ prom[c].st = "ok"

\* C15: a custom-mode resolution that falls back returns exactly the global
\* tokens computed at lines 660-663, whatever _Role records and cache entry
\* exist.
C15_FallbackReturnsGlobalTokens ==
    \A c \in Calls :
        FallbackDone(c) => Range(prom[c].val) = Range(loc[c].uRoles)

\* The definitions named by the userRoles attribute of the user.
MyDefs == {d \in Range(db.defs) : d.role \in Range(db.uRoles)}

GlobalWrite(c) ==
    \E d \in MyDefs :
        \E p \in Range(d.permissions) :
            Len(p) = 2 /\ p[1] = args[c].className /\ p[2] \in {"create", "update"}

GlobalCreate(c) ==
    \E d \in MyDefs : <<args[c].className, "create">> \in Range(d.permissions)

NotScoped(c) == loc[c].mode = "custom" /\ loc[c].path \in {"gate", "fallback", "cachehit"}

\* C16 (as claimed): outside the scoped path a create request is rejected
\* exactly when no global token grants write on the class, and a call that
\* passes the gate is never rejected as forbidden.
C16_GateIffNoWriteToken ==
    \A c \in Calls :
        NotScoped(c) =>
            /\ loc[c].path = "gate" <=> (IsCreate(c) /\ ~GlobalWrite(c))
            /\ loc[c].path = "gate" => prom[c] = Rejected(OPERATION_FORBIDDEN)
            /\ loc[c].path # "gate" => prom[c] # Rejected(OPERATION_FORBIDDEN)

\* C16 (amended): it is rejected exactly when the permissions of the user's
\* own definitions do not include <className>-create.
C16_GateIffNoCreatePermission ==
    \A c \in Calls :
        NotScoped(c) =>
            /\ loc[c].path = "gate" <=> (IsCreate(c) /\ ~GlobalCreate(c))
            /\ loc[c].path = "gate" => prom[c] = Rejected(OPERATION_FORBIDDEN)
            /\ loc[c].path # "gate" => prom[c] # Rejected(OPERATION_FORBIDDEN)

C16_Witness ==
    \E c \in Calls :
        /\ NotScoped(c)
        /\ IsCreate(c) /\ GlobalWrite(c) /\ ~GlobalCreate(c)
        /\ prom[c] = Rejected(OPERATION_FORBIDDEN)

\* C17: a list returned by a successful resolution holds no token twice.
C17_ReturnedListsDupFree ==
    \A c \in Calls :
        (pc[c] = "done" /\ prom[c].st = "ok") => NoDup(prom[c].val)

Written == <<fetchedRoles, userRoles, cache>>

InFlight(c) == pc[c] \notin {"idle", "done", "hung"}

\* C18: the step in which a resolution fails (rejected as forbidden, failed
\* by the data store, or left hanging by it) changes none of fetchedRoles,
\* userRoles and the cache; these are written only in a step in which a call
\* succeeds, so while no call has succeeded fetchedRoles is false and
\* userRoles is as constructed.
C18_OnlySuccessWrites ==
    [][/\ \A c \in Calls :
              (InFlight(c) /\ (prom'[c].st = "err" \/ pc'[c] = "hung")) =>
                  Written' = Written
       /\ Written' # Written =>
              \E c \in Calls : prom[c].st = "pending" /\ prom'[c].st = "ok"
       /\ (\A c \in Calls : prom'[c].st # "ok") =>
              (~fetchedRoles' /\ userRoles' = <<>>)]_vars

C18_Witness ==
    \E c, d \in Calls :
        /\ prom[c] = Rejected(OPERATION_FORBIDDEN)
        /\ prom[d] = Rejected(DB_ERROR)
        /\ ~fetchedRoles /\ userRoles = <<>> /\ cache = None

\* C19: in legacy mode the cache is looked up before any _Role query, and a
\* lookup that finds an entry ends the call at once: it returns the cached
\* list, stores it in userRoles, sets fetchedRoles and sends no _Role query.
C19_CacheHitBypassesWalk ==
    [][\A c \in Calls :
           /\ (loc[c].mode = "legacy" /\ pc[c] = "cache" /\ pc'[c] # "cache") =>
                  /\ "_Role" \notin asked[c]
                  /\ cache # None =>
                         /\ pc'[c] = "done"
                         /\ prom'[c] = Fulfilled(cache[1])
                         /\ userRoles' = cache[1]
                         /\ fetchedRoles'
                         /\ asked'[c] = asked[c]
           /\ "_Role" \in asked'[c] => "RoleCache" \in asked'[c]
           /\ (loc'[c].mode = "legacy" /\ loc'[c].path = "cachehit") =>
                  "_Role" \notin asked'[c]]_vars

C19_Witness ==
    \E c \in Calls :
        /\ loc[c].mode = "legacy" /\ loc[c].path = "cachehit"
        /\ db.direct # {}
        /\ pc[c] = "done"
        /\ prom[c] = Fulfilled(<<"role:old">>)
        /\ fetchedRoles
        /\ asked[c] = {"UBRoleDefinition", "RoleCache"}

\* C20: each parent-role query of a walk is one query over ids none of which
\* was in the pointer list of an earlier query of the walk, and the number
\* of these queries is at most the number of roles reached plus one.
C20_EachRoleQueriedOnce ==
    [][\A c \in Calls :
           loc'[c].rounds # loc[c].rounds =>
               /\ loc'[c].rounds = loc[c].rounds + 1
               /\ pc'[c] = "walk"
               /\ Range(loc'[c].ins) \cap loc[c].queried = {}
               /\ NoDup(loc'[c].ins)
               /\ loc'[c].queried = loc[c].queried \cup Range(loc'[c].ins)
               /\ loc'[c].rounds <= Cardinality(MemberClosure(db.direct)) + 1]_vars

C20_Witness ==
    \E c \in Calls :
        /\ pc[c] = "walk"
        /\ loc[c].rounds >= 2
        /\ Len(loc[c].ins) >= 2
        /\ Range(ParentRoles(loc[c].ins)) \cap loc[c].queried # {}

\* C21: a chase that has started ends, whatever records are stored (parent
\* post references that form a cycle included).
C21_ChaseTerminates ==
    \A c \in Calls : (pc[c] = "space") ~> (pc[c] # "space")

\* Tokens of the permissions <class>-<action> of the definitions named by
\* the userRoles attribute of the user.
PermissionTokens ==
    UNION { { "role:" \o p[1] \o "-" \o ReadWrite(p[2]) :
                p \in {q \in Range(d.permissions) : Len(q) = 2} } : d \in MyDefs }

\* The global tokens have been computed and kept (lines 662-664).
GlobalKept(c) == loc[c].mode = "custom" /\ loc[c].path \in {"scoped", "fallback", "cachehit"}

\* C22 (as claimed): the global tokens are exactly the tokens of those
\* permissions, each once; none derives from the user's id.
C22_GlobalTokensFromPermissions ==
    \A c \in Calls :
        GlobalKept(c) =>
            /\ Range(loc[c].uRoles) = PermissionTokens
            /\ NoDup(loc[c].uRoles)

\* C22 (amended): they are those tokens and, when the userRoles attribute
\* is not empty, the token role:<userId>, each once.
C22_GlobalTokensWithUserId ==
    \A c \in Calls :
        GlobalKept(c) =>
            /\ Range(loc[c].uRoles) =
                   PermissionTokens \cup
                       (IF db.uRoles # <<>> THEN {"role:" \o UserId} ELSE {})
            /\ NoDup(loc[c].uRoles)

C22_Witness ==
    \E c \in Calls :
        /\ GlobalKept(c)
        /\ db.uRoles = <<"instructor", "author">>
        /\ Cardinality(MyDefs) = 2
        /\ loc[c].uRoles = <<"role:Post-write", "role:Comment-write", "role:u1">>

\* Where the chain of post references from t ends within n hops: "found" (a
\* record with a classRoom), "dangling" (no record), "bare" (a record with
\* neither a classRoom nor a post), or "cycle" (more hops than records).
RECURSIVE ChaseEnd(_, _)
ChaseEnd(t, n) ==
    IF ObjectsAt(t) = {} THEN "dangling"
    ELSE LET o == CHOOSE x \in ObjectsAt(t) : TRUE
         IN IF o.classRoom # Null THEN "found"
            ELSE IF o.post = NoPtr THEN "bare"
            ELSE IF n = 0 THEN "cycle"
            ELSE ChaseEnd(o.post, n - 1)

ChaseEndOf(c) == ChaseEnd(LastMatchRoot(args[c]), Cardinality(db.objs))

\* C23: a chase that ends at a missing record, or at a record with neither
\* a classRoom nor a post, gives no space pointer: the call goes on through
\* the fallback (the create gate, then _loadRoles) and is not rejected as
\* forbidden unless that gate rejects it.
C23_DeadEndIsNoPointer ==
    \A c \in Calls :
        (SpaceDecided(c) /\ ChaseEndOf(c) \in {"dangling", "bare"}) =>
            /\ loc[c].space = Null
            /\ loc[c].path \in {"gate", "fallback", "cachehit"}
            /\ "UBClassRoomUser" \notin asked[c]
            /\ failed[c] \notin {"space"}
            /\ loc[c].path = "gate" <=> (IsCreate(c) /\ ~GlobalCreate(c))
            /\ loc[c].path # "gate" => prom[c] # Rejected(OPERATION_FORBIDDEN)

C23_Witness ==
    \E c \in Calls :
        /\ SpaceDecided(c) /\ ChaseEndOf(c) = "dangling"
        /\ ObjectsAt(LastMatchRoot(args[c])) # {}
        /\ loc[c].path = "fallback"
        /\ pc[c] = "done" /\ prom[c].st = "ok"

\* The tokens role:<class>-<space>-<x> that can be written for a space.
TokensOfSpace(sp) ==
    { "role:" \o cn \o "-" \o sp \o "-" \o x :
        cn \in {"Post", "Comment", "classRoom"},
        x \in {"read", "write", "create", "update", "undefined"} }

\* C24: the scoped tokens of a list produced by the scoped path all carry the
\* space the space pointer resolved to, and the principal's user has a
\* membership record in that space.
C24_ScopedTokensOnlyForMemberSpace ==
    \A c \in Calls :
        ScopedDone(c) =>
            /\ loc[c].space = SpaceFrom(args[c], LastMatchRoot(args[c]))
            /\ \E m \in Range(db.members) : m.user = UserId /\ m.classRoom = loc[c].space
            /\ Range(ScopedPart(c)) \subseteq TokensOfSpace(loc[c].space)
            /\ userRoles = prom[c].val

C24_Witness ==
    \E c \in Calls :
        /\ ScopedDone(c)
        /\ \E m \in Range(db.members) : m.user = OtherUser /\ m.role = "instructor"
        /\ ScopedPart(c) = <<"role:Post-s1-read">>

\* C25: a call made while fetchedRoles is true returns at once the list
\* userRoles holds, whatever its arguments: it sends no query, evaluates no
\* create gate and no membership check, and is never rejected.
C25_ResolvedSkipsAllChecks ==
    [][\A c \in Calls :
           (fetchedRoles /\ pc[c] = "idle" /\ pc'[c] # "idle") =>
               /\ pc'[c] = "done"
               /\ prom'[c] = Fulfilled(userRoles)
               /\ shares'[c] = 0
               /\ asked'[c] = {}
               /\ loc'[c] = EmptyLoc]_vars

C25_Witness ==
    \E c \in Calls :
        /\ ~isMaster /\ hasUser
        /\ isNewRoleEnabled(db.defs)
        /\ pc[c] = "done" /\ asked[c] = {} /\ shares[c] = 0
        /\ prom[c].st = "ok" /\ prom[c].val # <<>>
        /\ args[c].className = "Comment"
        /\ IsCreate(c) /\ ~GlobalCreate(c)
        /\ \E d \in Calls : d # c /\ loc[d].path = "scoped" /\ args[d].className = "Post"

====
